---- MODULE Spec2Model ----
(***************************************************************************)
(* create_tsv_from_wmt24_esa.py: conversion of WMT24 ESA annotation        *)
(* records (one JSON object per line) into one TSV row per signature,      *)
(* joined against the wmt24pp references, with per-language statistics.    *)
(***************************************************************************)
EXTENDS Integers, Sequences, FiniteSets, TLC

VARIABLES
    input,                          \* the decoded lines of wmt24_esa_jsonl
    filter_data_with_invalid_span,  \* the command line flag
    pc,                             \* position of main()
    pos,                            \* index of the next line of input
    log_counter,
    langs_to_data,
    valid_signature_counter,
    langs_to_statistics,
    data,                           \* the rows collected for the DataFrame
    li, si, di,                     \* positions of the three nested loops
    src_to_tgt,
    num_langs_data,
    output,                         \* the TSV file
    span_arg, hyp_arg, span_result  \* one call of correct_span

vars == <<input, filter_data_with_invalid_span, pc, pos, log_counter,
          langs_to_data, valid_signature_counter, langs_to_statistics, data,
          li, si, di, src_to_tgt, num_langs_data, output,
          span_arg, hyp_arg, span_result>>

main_vars == <<input, filter_data_with_invalid_span, pc, pos, log_counter,
               langs_to_data, valid_signature_counter, langs_to_statistics,
               data, li, si, di, src_to_tgt, num_langs_data, output>>

span_vars == <<span_arg, hyp_arg, span_result>>

----------------------------------------------------------------------------
(* Values of a span bound: a JSON integer or a JSON string.                *)

IntB(n) == [int |-> TRUE, n |-> n, s |-> ""]
StrB(s) == [int |-> FALSE, n |-> 0, s |-> s]
Missing == StrB("missing")

isinstance_int(b) == b.int
isinstance_str(b) == ~b.int

\* Python's == on two bounds: an int never equals a str.
PyEq(a, b) == a = b

\* The strings used as bounds, in Python's (lexicographic) string order.
StrOrder == <<"abc", "missing", "zz">>

StrRank(s) == CHOOSE i \in 1..Len(StrOrder) : StrOrder[i] = s

\* Python's > on two bounds; comparing an int with a str raises TypeError.
PyGtRaises(a, b) == a.int # b.int

PyGt(a, b) == IF a.int THEN a.n > b.n ELSE StrRank(a.s) > StrRank(b.s)

\* f'{bound}'
PyFormat(b) == IF b.int THEN ToString(b.n) ELSE b.s

Span(st, en, sev) == [start_i |-> st, end_i |-> en, severity |-> sev]

Min(a, b) == IF a < b THEN a ELSE b
Max(a, b) == IF a > b THEN a ELSE b

----------------------------------------------------------------------------
(* The span functions.                                                     *)

\* assert_span_type without the assertion of lines 21-23 on start_i.
assert_span_type_end_only(esa_span) ==
    /\ \/ isinstance_int(esa_span.end_i)
       \/ (PyEq(esa_span.end_i, Missing) /\ PyEq(esa_span.start_i, Missing))
    /\ esa_span.severity \in {"major", "minor", "undecided"}

assert_span_type(esa_span) ==
    /\ \/ isinstance_int(esa_span.start_i)
       \/ (PyEq(esa_span.start_i, Missing) /\ PyEq(esa_span.end_i, Missing))
    /\ \/ isinstance_int(esa_span.end_i)
       \/ (PyEq(esa_span.end_i, Missing) /\ PyEq(esa_span.start_i, Missing))
    /\ esa_span.severity \in {"major", "minor", "undecided"}

\* Lines 32-37: the severity rewrite and the clamping, on the copy.
correct_span_clamp(error_span, hypothesis) ==
    LET s1 == IF error_span.severity = "critical"
              THEN [error_span EXCEPT !.severity = "major"]
              ELSE error_span
    IN  IF isinstance_int(s1.start_i) /\ isinstance_int(s1.end_i)
        THEN [s1 EXCEPT
                !.start_i = IntB(Min(Max(0, s1.start_i.n), Len(hypothesis))),
                !.end_i = IntB(Min(Max(0, s1.end_i.n), Len(hypothesis)))]
        ELSE s1

\* The result of a call: raised (TypeError), the value returned, and the
\* caller's span object after the call (arg).  The function works on a deep
\* copy, so the caller's object is the one passed in.
correct_span(error_span, hypothesis) ==
    LET s2 == correct_span_clamp(error_span, hypothesis)
    IN  IF PyGtRaises(s2.start_i, s2.end_i)
        THEN [raised |-> TRUE, value |-> s2, arg |-> error_span]
        ELSE LET s3 == IF PyGt(s2.start_i, s2.end_i)
                       THEN [s2 EXCEPT !.start_i = s2.end_i,
                                       !.end_i = s2.start_i]
                       ELSE s2
                 s4 == IF PyEq(s3.start_i, s3.end_i)
                       THEN [s3 EXCEPT !.start_i = Missing, !.end_i = Missing]
                       ELSE s3
             IN  [raised |-> FALSE, value |-> s4, arg |-> error_span]

\* is_invalid_span without the severity test of line 66.
is_invalid_span_any_severity(error_span, hypothesis) ==
    LET start_i == error_span.start_i
        end_i == error_span.end_i
    IN  \/ isinstance_str(start_i) /\ start_i # Missing
        \/ isinstance_str(end_i) /\ end_i # Missing
        \/ isinstance_int(start_i)
           /\ (start_i.n < 0 \/ Len(hypothesis) < start_i.n)
        \/ isinstance_int(end_i)
           /\ (end_i.n < 0 \/ Len(hypothesis) < end_i.n)
        \/ isinstance_int(start_i) /\ isinstance_int(end_i)
           /\ start_i.n > end_i.n

is_invalid_span(error_span, hypothesis) ==
    LET start_i == error_span.start_i
        end_i == error_span.end_i
        severity == error_span.severity
    IN  IF isinstance_str(start_i) /\ start_i # Missing THEN TRUE
        ELSE IF isinstance_str(end_i) /\ end_i # Missing THEN TRUE
        ELSE IF isinstance_int(start_i)
                /\ (start_i.n < 0 \/ Len(hypothesis) < start_i.n) THEN TRUE
        ELSE IF isinstance_int(end_i)
                /\ (end_i.n < 0 \/ Len(hypothesis) < end_i.n) THEN TRUE
        ELSE IF isinstance_int(start_i) /\ isinstance_int(end_i)
                /\ start_i.n > end_i.n THEN TRUE
        ELSE IF severity \notin {"major", "minor", "critical"} THEN TRUE
        ELSE FALSE

----------------------------------------------------------------------------
(* The input records and the reference corpus.                             *)

MaxRecords == 3

Datum(langs, doc_id, system, src, tgt, esa_spans) ==
    [src |-> src, tgt |-> tgt, langs |-> langs, doc_id |-> doc_id,
     line_id |-> 1, system |-> system, domain |-> "news",
     esa_spans |-> esa_spans]

\* Records that differ in language pair, signature, source and target text.
\* ("a", 1, "1-s") and ("a-1", 1, "s") are two triples with one signature.
GroupingPool ==
    { Datum("en-ja", "a", "1-s", "s1", "ab", <<>>),
      Datum("en-ja", "a", "1-s", "s1", "ab",
            <<Span(IntB(0), IntB(1), "major")>>),
      Datum("en-ja", "a", "1-s", "s2", "ab", <<>>),
      Datum("en-ja", "a", "1-s", "s1", "",
            <<Span(IntB(0), IntB(1), "major")>>),
      Datum("en-ja", "a", "1-s", "s1", "ab",
            <<Span(IntB(0), IntB(3), "major")>>),
      Datum("en-ja", "a-1", "s", "s1", "ab",
            <<Span(IntB(1), IntB(1), "minor")>>),
      Datum("en-ja", "b", "s", "s1", "ab", <<>>),
      Datum("en-ja", "b", "s", "s2", "ab",
            <<Span(IntB(0), IntB(1), "major")>>),
      Datum("en-cs", "a", "1-s", "s2", "ab",
            <<Span(IntB(0), IntB(1), "minor")>>),
      Datum("en-cs", "a", "1-s", "s3", "ab", <<>>),
      Datum("de-en", "a", "1-s", "s1", "ab", <<>>),
      Datum("en-ja", "a", "1-s", "", "ab", <<>>) }

\* The span lists of SpanPool, on the hypothesis "ab".
SpanLists ==
    { <<Span(IntB(0), IntB(1), "major")>>,
      <<Span(IntB(1), IntB(1), "minor")>>,
      <<Span(Missing, Missing, "major")>>,
      <<Span(IntB(2), IntB(0), "minor")>>,
      <<Span(IntB(0), IntB(3), "major")>>,
      <<Span(IntB(-1), IntB(1), "minor")>>,
      <<Span(StrB("abc"), IntB(1), "major")>>,
      <<Span(IntB(0), Missing, "major")>>,
      <<Span(IntB(0), IntB(1), "critical")>>,
      <<Span(IntB(0), IntB(2), "undecided")>>,
      <<Span(IntB(0), IntB(2), "minor"), Span(IntB(0), IntB(3), "major")>>,
      <<Span(IntB(0), IntB(3), "minor"), Span(StrB("abc"), IntB(1), "major")>> }

\* Joinable records of one language pair that differ in their spans.
SpanPool ==
    { Datum("en-ja", "a", "1-s", "s1", "ab", l) : l \in SpanLists }
    \cup { Datum("en-ja", "b", "s", "s1", "ab",
                 <<Span(IntB(1), IntB(2), "minor"),
                   Span(IntB(2), IntB(2), "major")>>) }

SeqsOfLen(S, n) == [1..n -> S]

Files(S) == UNION {SeqsOfLen(S, n) : n \in 0..MaxRecords}

langs_to_wmt24pp_code ==
    [l \in {"en-cs", "en-ja", "en-zh", "en-is", "en-uk", "en-ru"} |->
        CASE l = "en-cs" -> "en-cs_CZ"
          [] l = "en-ja" -> "en-ja_JP"
          [] l = "en-zh" -> "en-zh_CN"
          [] l = "en-is" -> "en-is_IS"
          [] l = "en-uk" -> "en-uk_UA"
          [] l = "en-ru" -> "en-ru_RU"]

\* load_dataset("google/wmt24pp", code)["train"]: the entries of one pair.
load_dataset(code) ==
    CASE code = "en-ja_JP" ->
            << [source |-> "s1", target |-> "r1-ja", is_bad_source |-> FALSE],
               [source |-> "s2", target |-> "r2-ja", is_bad_source |-> TRUE],
               [source |-> "s1", target |-> "r1b-ja", is_bad_source |-> FALSE] >>
      [] code = "en-cs_CZ" ->
            << [source |-> "s1", target |-> "r1-cs", is_bad_source |-> FALSE],
               [source |-> "s2", target |-> "r2-cs", is_bad_source |-> FALSE] >>
      [] OTHER -> <<>>

\* Lines 126-130: the source -> reference map, bad sources left out.
RECURSIVE build_src_to_tgt(_, _, _)
build_src_to_tgt(wmt24pp, i, m) ==
    IF i > Len(wmt24pp) THEN m
    ELSE LET d == wmt24pp[i]
         IN  IF d.is_bad_source
             THEN build_src_to_tgt(wmt24pp, i + 1, m)
             ELSE build_src_to_tgt(wmt24pp, i + 1,
                     [x \in DOMAIN m \cup {d.source} |->
                         IF x = d.source THEN d.target ELSE m[x]])

EmptyMap == [x \in {} |-> ""]

\* datum["langs"].split("-") for the language pairs of the input.
split_langs(langs) ==
    CASE langs = "en-ja" -> <<"en", "ja">>
      [] langs = "en-cs" -> <<"en", "cs">>
      [] langs = "en-zh" -> <<"en", "zh">>
      [] langs = "en-is" -> <<"en", "is">>
      [] langs = "en-uk" -> <<"en", "uk">>
      [] langs = "en-ru" -> <<"en", "ru">>
      [] langs = "de-en" -> <<"de", "en">>

\* Line 111
signature_of(datum) ==
    datum.doc_id \o "-" \o ToString(datum.line_id) \o "-" \o datum.system

\* " ".join(tokens)
RECURSIVE join(_)
join(tokens) ==
    IF Len(tokens) = 0 THEN ""
    ELSE IF Len(tokens) = 1 THEN tokens[1]
    ELSE tokens[1] \o " " \o join(Tail(tokens))

----------------------------------------------------------------------------
(* langs_to_data: a dict of dicts of lists, each in insertion order.       *)

IndexOfLangs(ltd, langs) ==
    IF \E i \in 1..Len(ltd) : ltd[i].langs = langs
    THEN CHOOSE i \in 1..Len(ltd) : ltd[i].langs = langs
    ELSE 0

IndexOfSignature(sigs, signature) ==
    IF \E i \in 1..Len(sigs) : sigs[i].signature = signature
    THEN CHOOSE i \in 1..Len(sigs) : sigs[i].signature = signature
    ELSE 0

\* Line 112: langs_to_data[langs][signature].append(datum)
append_datum(ltd, datum) ==
    LET langs == datum.langs
        signature == signature_of(datum)
        ltd1 == IF IndexOfLangs(ltd, langs) = 0
                THEN Append(ltd, [langs |-> langs, sigs |-> <<>>])
                ELSE ltd
        l == IndexOfLangs(ltd1, langs)
        sigs == ltd1[l].sigs
        sigs1 == IF IndexOfSignature(sigs, signature) = 0
                 THEN Append(sigs, [signature |-> signature, data |-> <<>>])
                 ELSE sigs
        s == IndexOfSignature(sigs1, signature)
    IN  [ltd1 EXCEPT ![l].sigs =
            [sigs1 EXCEPT ![s].data = Append(@, datum)]]

LogKeys == {"target segment is empty", "skip_datum_with_invalid_span",
            "num_skipped_valid_signatures"}

CounterKeys == {"missing", "major", "minor", "undecided", "critical"}

StatKeys == {"no-error", "missing", "major", "minor"}

\* Lines 161-164 without the zero-length test.
span_bucket_severity(esa_span) == esa_span.severity

\* Lines 161-164: the bucket of esa_counter a span adds to.
span_bucket(esa_span) ==
    IF PyEq(esa_span.start_i, esa_span.end_i)
    THEN "missing"
    ELSE esa_span.severity

\* Lines 154-156: the condition under which a span rejects its record.
rejects_span(filter, esa_span, hypothesis) ==
    filter /\ is_invalid_span(esa_span, hypothesis)

\* Lines 139-168: the loop over the spans of one record.  status is "assert"
\* when assert_span_type fails, "invalid" at the break of line 158.
RECURSIVE span_loop(_, _, _, _, _)
span_loop(esa_spans, i, hypothesis, filter, acc) ==
    IF i > Len(esa_spans) THEN acc
    ELSE LET esa_span == esa_spans[i]
         IN  IF ~assert_span_type(esa_span)
             THEN [acc EXCEPT !.status = "assert"]
             ELSE IF rejects_span(filter, esa_span, hypothesis)
             THEN [acc EXCEPT !.status = "invalid"]
             ELSE span_loop(esa_spans, i + 1, hypothesis, filter,
                    [acc EXCEPT
                       !.esa_counter[span_bucket(esa_span)] = @ + 1,
                       !.start_indices = Append(@, PyFormat(esa_span.start_i)),
                       !.end_indices = Append(@, PyFormat(esa_span.end_i)),
                       !.error_types = Append(@, esa_span.severity)])

span_loop_start ==
    [status |-> "ok", start_indices |-> <<>>, end_indices |-> <<>>,
     error_types |-> <<>>, esa_counter |-> [k \in CounterKeys |-> 0]]

\* Lines 174-177: the row of a record without spans.
with_no_error(r) ==
    IF Len(r.start_indices) = 0
    THEN [r EXCEPT !.start_indices = <<"-1">>, !.end_indices = <<"-1">>,
                   !.error_types = <<"no-error">>]
    ELSE r

\* Lines 179-193: the row appended to data.
make_row(datum, reference, r) ==
    [doc_id |-> datum.doc_id,
     segment_id |-> datum.line_id,
     source_lang |-> split_langs(datum.langs)[1],
     target_lang |-> split_langs(datum.langs)[2],
     set_id |-> "official",
     system_id |-> datum.system,
     source_segment |-> datum.src,
     hypothesis_segment |-> datum.tgt,
     reference_segment |-> reference,
     domain_name |-> datum.domain,
     method |-> "ESA",
     start_indices |-> join(r.start_indices),
     end_indices |-> join(r.end_indices),
     error_types |-> join(r.error_types)]

\* Lines 195-200
add_statistics(stat, r) ==
    [stat EXCEPT
       !["no-error"] = IF r.error_types[1] = "no-error" THEN @ + 1 ELSE @,
       !["major"] = @ + r.esa_counter["major"],
       !["minor"] = @ + r.esa_counter["minor"],
       !["missing"] = @ + r.esa_counter["missing"]]

\* Line 107 testing the source text instead of the target text.
is_empty_target_src(datum) == Len(datum.src) = 0

\* Line 107
is_empty_target(datum) == Len(datum.tgt) = 0

\* Line 136
has_reference(datum, m) == datum.src \in DOMAIN m

\* Line 121
is_supported(langs) == langs \in DOMAIN langs_to_wmt24pp_code

\* A continue that gives the signature up after its first record.
after_continue_next_signature(sigs, s, d) == <<s + 1, 1>>

\* The loop positions after a record was passed over (continue): the next
\* record of the signature, or the next signature.
after_continue(sigs, s, d) ==
    IF d < Len(sigs[s].data) THEN <<s, d + 1>> ELSE <<s + 1, 1>>

\* Line 204 without its break: the next record of the same signature.
after_emit_continue(sigs, s, d) ==
    IF d < Len(sigs[s].data) THEN <<s, d + 1>> ELSE <<s + 1, 1>>

\* The loop positions after a row was appended (line 204, break).
after_emit(sigs, s, d) == <<s + 1, 1>>

\* Lines 212-214
skipped_signatures(valid, num) == valid - num

RECURSIVE count_records(_)
count_records(sigs) ==
    IF Len(sigs) = 0 THEN 0
    ELSE Len(sigs[1].data) + count_records(Tail(sigs))

\* Line 116 counting the records instead of the signatures.
valid_signatures_records(sigs) == count_records(sigs)

\* Line 116: len(langs_to_data[langs])
valid_signatures(sigs) == Len(sigs)

----------------------------------------------------------------------------
(* main()                                                                  *)

MaxIndex == 3
MaxHypLen == 2

RECURSIVE Hypothesis(_)
Hypothesis(n) == IF n = 0 THEN "" ELSE "a" \o Hypothesis(n - 1)

Severities == {"major", "minor", "undecided", "critical", "neutral"}

Bounds == {IntB(n) : n \in -1..MaxIndex} \cup {StrB(StrOrder[i]) : i \in 1..Len(StrOrder)}

NoCall == [called |-> FALSE, raised |-> FALSE,
           passed |-> Span(Missing, Missing, "major"),
           value |-> Span(Missing, Missing, "major")]

ZeroStatistics == [k \in StatKeys |-> 0]

IdleMain ==
    /\ pc = "ingest"
    /\ pos = 1
    /\ log_counter = [k \in LogKeys |-> 0]
    /\ langs_to_data = <<>>
    /\ valid_signature_counter = [l \in {} |-> 0]
    /\ langs_to_statistics = [l \in {} |-> ZeroStatistics]
    /\ data = <<>>
    /\ li = 0 /\ si = 0 /\ di = 0
    /\ src_to_tgt = EmptyMap
    /\ num_langs_data = 0
    /\ output = [written |-> FALSE, rows |-> <<>>]

Init ==
    /\ input \in Files(GroupingPool) \cup Files(SpanPool)
    /\ filter_data_with_invalid_span \in BOOLEAN
    /\ IdleMain
    /\ span_arg = Span(Missing, Missing, "major")
    /\ hyp_arg = ""
    /\ span_result = NoCall

\* Lines 105-112: one iteration of the loop over the input lines.
ReadDatum ==
    /\ pc = "ingest"
    /\ pos <= Len(input)
    /\ LET datum == input[pos]
       IN  IF ~(Len(datum.src) > 0)
           THEN /\ pc' = "failed"
                /\ UNCHANGED <<pos, log_counter, langs_to_data>>
           ELSE /\ pc' = pc
                /\ pos' = pos + 1
                /\ IF is_empty_target(datum)
                   THEN /\ log_counter' =
                             [log_counter EXCEPT
                                !["target segment is empty"] = @ + 1]
                        /\ UNCHANGED langs_to_data
                   ELSE /\ langs_to_data' = append_datum(langs_to_data, datum)
                        /\ UNCHANGED log_counter
    /\ UNCHANGED <<input, filter_data_with_invalid_span,
                   valid_signature_counter, langs_to_statistics, data,
                   li, si, di, src_to_tgt, num_langs_data, output>>
    /\ UNCHANGED span_vars

\* Lines 114-119: the input is exhausted.
CountValidSignatures ==
    /\ pc = "ingest"
    /\ pos > Len(input)
    /\ valid_signature_counter' =
          [l \in {langs_to_data[i].langs : i \in 1..Len(langs_to_data)} |->
              valid_signatures(
                  langs_to_data[IndexOfLangs(langs_to_data, l)].sigs)]
    /\ pc' = "langs"
    /\ li' = 1
    /\ UNCHANGED <<input, filter_data_with_invalid_span, pos, log_counter,
                   langs_to_data, langs_to_statistics, data, si, di,
                   src_to_tgt, num_langs_data, output>>
    /\ UNCHANGED span_vars

\* Lines 120-122: a language pair without a wmt24pp code.
SkipLangs ==
    /\ pc = "langs"
    /\ li <= Len(langs_to_data)
    /\ ~is_supported(langs_to_data[li].langs)
    /\ li' = li + 1
    /\ UNCHANGED <<input, filter_data_with_invalid_span, pc, pos, log_counter,
                   langs_to_data, valid_signature_counter,
                   langs_to_statistics, data, si, di, src_to_tgt,
                   num_langs_data, output>>
    /\ UNCHANGED span_vars

\* Lines 124-133: the references of a supported language pair.
PrepareReferences ==
    /\ pc = "langs"
    /\ li <= Len(langs_to_data)
    /\ is_supported(langs_to_data[li].langs)
    /\ src_to_tgt' =
          build_src_to_tgt(
              load_dataset(langs_to_wmt24pp_code[langs_to_data[li].langs]),
              1, EmptyMap)
    /\ num_langs_data' = 0
    /\ si' = 1
    /\ di' = 1
    /\ pc' = "signature"
    /\ UNCHANGED <<input, filter_data_with_invalid_span, pos, log_counter,
                   langs_to_data, valid_signature_counter,
                   langs_to_statistics, data, li, output>>
    /\ UNCHANGED span_vars

\* Lines 134-204: one record of the current signature.
ProcessDatum ==
    /\ pc = "signature"
    /\ si <= Len(langs_to_data[li].sigs)
    /\ LET langs == langs_to_data[li].langs
           sigs == langs_to_data[li].sigs
           datum == sigs[si].data[di]
           cont == after_continue(sigs, si, di)
           brk == after_emit(sigs, si, di)
           r0 == span_loop(datum.esa_spans, 1, datum.tgt,
                           filter_data_with_invalid_span, span_loop_start)
           r == with_no_error(r0)
           stat == IF langs \in DOMAIN langs_to_statistics
                   THEN langs_to_statistics[langs]
                   ELSE ZeroStatistics
       IN  IF ~has_reference(datum, src_to_tgt)
           THEN /\ si' = cont[1]
                /\ di' = cont[2]
                /\ UNCHANGED <<pc, log_counter, langs_to_statistics, data,
                               num_langs_data>>
           ELSE IF r0.status = "assert"
           THEN /\ pc' = "failed"
                /\ UNCHANGED <<si, di, log_counter, langs_to_statistics,
                               data, num_langs_data>>
           ELSE IF r0.status = "invalid"
           THEN /\ log_counter' =
                     [log_counter EXCEPT
                        !["skip_datum_with_invalid_span"] = @ + 1]
                /\ si' = cont[1]
                /\ di' = cont[2]
                /\ UNCHANGED <<pc, langs_to_statistics, data, num_langs_data>>
           ELSE /\ data' = Append(data,
                                  make_row(datum, src_to_tgt[datum.src], r))
                /\ langs_to_statistics' =
                     [l \in DOMAIN langs_to_statistics \cup {langs} |->
                         IF l = langs THEN add_statistics(stat, r)
                         ELSE langs_to_statistics[l]]
                /\ num_langs_data' = num_langs_data + 1
                /\ si' = brk[1]
                /\ di' = brk[2]
                /\ UNCHANGED <<pc, log_counter>>
    /\ UNCHANGED <<input, filter_data_with_invalid_span, pos, langs_to_data,
                   valid_signature_counter, li, src_to_tgt, output>>
    /\ UNCHANGED span_vars

\* Lines 206-214: the signatures of the language pair are exhausted.
ReportLangs ==
    /\ pc = "signature"
    /\ si > Len(langs_to_data[li].sigs)
    /\ LET langs == langs_to_data[li].langs
       IN  /\ langs_to_statistics' =
                [l \in DOMAIN langs_to_statistics \cup {langs} |->
                    IF l \in DOMAIN langs_to_statistics
                    THEN langs_to_statistics[l]
                    ELSE ZeroStatistics]
           /\ log_counter' =
                [log_counter EXCEPT
                   !["num_skipped_valid_signatures"] =
                      @ + skipped_signatures(valid_signature_counter[langs],
                                             num_langs_data)]
    /\ li' = li + 1
    /\ pc' = "langs"
    /\ UNCHANGED <<input, filter_data_with_invalid_span, pos, langs_to_data,
                   valid_signature_counter, data, si, di, src_to_tgt,
                   num_langs_data, output>>
    /\ UNCHANGED span_vars

\* Lines 216-219: the table is written.
WriteOutput ==
    /\ pc = "langs"
    /\ li > Len(langs_to_data)
    /\ output' = [written |-> TRUE, rows |-> data]
    /\ pc' = "done"
    /\ UNCHANGED <<input, filter_data_with_invalid_span, pos, log_counter,
                   langs_to_data, valid_signature_counter,
                   langs_to_statistics, data, li, si, di, src_to_tgt,
                   num_langs_data>>
    /\ UNCHANGED span_vars

Next ==
    \/ ReadDatum
    \/ CountValidSignatures
    \/ SkipLangs
    \/ PrepareReferences
    \/ ProcessDatum
    \/ ReportLangs
    \/ WriteOutput

Spec == Init /\ [][Next]_vars

----------------------------------------------------------------------------
(* correct_span, called on its own: main() never calls it.                 *)

SpanInit ==
    /\ input = <<>>
    /\ filter_data_with_invalid_span = FALSE
    /\ IdleMain
    /\ span_arg \in {Span(st, en, sev) :
                        st \in Bounds, en \in Bounds, sev \in Severities}
    /\ hyp_arg \in {Hypothesis(n) : n \in 0..MaxHypLen}
    /\ span_result = NoCall

CallCorrectSpan ==
    /\ ~span_result.called
    /\ LET res == correct_span(span_arg, hyp_arg)
       IN  /\ span_result' = [called |-> TRUE, raised |-> res.raised,
                              passed |-> span_arg, value |-> res.value]
           /\ span_arg' = res.arg
    /\ UNCHANGED hyp_arg
    /\ UNCHANGED main_vars

SpanNext == CallCorrectSpan

SpanSpec == SpanInit /\ [][SpanNext]_vars

----------------------------------------------------------------------------
(* What the claims speak of, stated over the input and the output.         *)

MaxSpans == 2

ReadSoFar == SubSeq(input, 1, pos - 1)

\* The records grouped under a signature, in input order.
Grouped == SelectSeq(ReadSoFar, LAMBDA d : d.tgt # "")

GroupOf(L, K) ==
    SelectSeq(Grouped, LAMBDA d : d.langs = L /\ signature_of(d) = K)

KeysOf(L) == {signature_of(Grouped[i]) : i \in {j \in 1..Len(Grouped) : Grouped[j].langs = L}}

LangsSeen == {Grouped[i].langs : i \in 1..Len(Grouped)}

AllKeys == UNION {KeysOf(L) : L \in LangsSeen}

SupportedLangs == {"en-cs", "en-ja", "en-zh", "en-is", "en-uk", "en-ru"}

\* The source text is a key of the reference map of the pair.
Joinable(d) ==
    /\ d.langs \in SupportedLangs
    /\ LET corpus == load_dataset(langs_to_wmt24pp_code[d.langs])
       IN  \E i \in 1..Len(corpus) :
              corpus[i].source = d.src /\ ~corpus[i].is_bad_source

\* The last good entry of the corpus for a source text.
ReferenceOf(d) ==
    LET corpus == load_dataset(langs_to_wmt24pp_code[d.langs])
        good == {i \in 1..Len(corpus) :
                    corpus[i].source = d.src /\ ~corpus[i].is_bad_source}
    IN  corpus[CHOOSE i \in good : \A j \in good : j <= i].target

\* Section 4.2 of the specification.
InvalidSpan(sp, hyp) ==
    \/ ~sp.start_i.int /\ sp.start_i.s # "missing"
    \/ ~sp.end_i.int /\ sp.end_i.s # "missing"
    \/ sp.start_i.int /\ ~(0 <= sp.start_i.n /\ sp.start_i.n <= Len(hyp))
    \/ sp.end_i.int /\ ~(0 <= sp.end_i.n /\ sp.end_i.n <= Len(hyp))
    \/ sp.start_i.int /\ sp.end_i.int /\ sp.start_i.n > sp.end_i.n
    \/ sp.severity \notin {"major", "minor", "critical"}

HasInvalidSpan(d) ==
    \E i \in 1..Len(d.esa_spans) : InvalidSpan(d.esa_spans[i], d.tgt)

Qualifies(d) ==
    /\ Joinable(d)
    /\ filter_data_with_invalid_span => ~HasInvalidSpan(d)

\* Index of the first qualifying record of a group, 0 when there is none.
FirstQualifying(g) ==
    IF \E i \in 1..Len(g) : Qualifies(g[i])
    THEN CHOOSE i \in 1..Len(g) :
            Qualifies(g[i]) /\ \A j \in 1..(i - 1) : ~Qualifies(g[j])
    ELSE 0

RowLangs(row) == row.source_lang \o "-" \o row.target_lang

RowKey(row) ==
    row.doc_id \o "-" \o ToString(row.segment_id) \o "-" \o row.system_id

RowTriple(row) == <<row.doc_id, row.segment_id, row.system_id>>

RowGroup(row) == GroupOf(RowLangs(row), RowKey(row))

RowsOf(L, K) ==
    {k \in 1..Len(data) : RowLangs(data[k]) = L /\ RowKey(data[k]) = K}

RowsOfLangs(L) == {k \in 1..Len(data) : RowLangs(data[k]) = L}

RowBuiltFrom(row, d) ==
    /\ row.doc_id = d.doc_id
    /\ row.segment_id = d.line_id
    /\ row.system_id = d.system
    /\ RowLangs(row) = d.langs
    /\ row.set_id = "official"
    /\ row.method = "ESA"
    /\ row.domain_name = d.domain
    /\ row.source_segment = d.src
    /\ row.hypothesis_segment = d.tgt
    /\ row.reference_segment = ReferenceOf(d)
    /\ IF Len(d.esa_spans) = 0
       THEN /\ row.start_indices = "-1"
            /\ row.end_indices = "-1"
            /\ row.error_types = "no-error"
       ELSE /\ row.start_indices =
                 join([i \in 1..Len(d.esa_spans) |->
                          PyFormat(d.esa_spans[i].start_i)])
            /\ row.end_indices =
                 join([i \in 1..Len(d.esa_spans) |->
                          PyFormat(d.esa_spans[i].end_i)])
            /\ row.error_types =
                 join([i \in 1..Len(d.esa_spans) |-> d.esa_spans[i].severity])

\* The tokens of a space-joined field.
IndexTokens ==
    {ToString(n) : n \in -1..MaxIndex}
    \cup {StrOrder[i] : i \in 1..Len(StrOrder)}

TypeTokens == Severities \cup {"no-error"}

Split(s, Tokens) ==
    CHOOSE q \in UNION {SeqsOfLen(Tokens, n) : n \in 1..MaxSpans} : join(q) = s

IsIntToken(tok) == \E n \in -1..MaxIndex : ToString(n) = tok

ParseInt(tok) == CHOOSE n \in -1..MaxIndex : ToString(n) = tok

Finished == pc = "done"

FailedAtDatum == pc = "failed" /\ li >= 1

CurrentDatum == langs_to_data[li].sigs[si].data[di]

StatOf(L) ==
    IF L \in DOMAIN langs_to_statistics
    THEN langs_to_statistics[L]
    ELSE ZeroStatistics

----------------------------------------------------------------------------
(* The claims.                                                             *)

\* C1: the rows collected for the output table hold at most one row per
\* language pair and (doc_id, line_id, system): no two rows, at any time of
\* the run or in the written table, agree on all of them.
C1_OneRowPerSignature ==
    /\ \A i, j \in 1..Len(data) :
          (i < j /\ RowLangs(data[i]) = RowLangs(data[j]))
             => RowTriple(data[i]) # RowTriple(data[j])
    /\ output.written => output.rows = data

\* A run that ended with a row whose signature has two qualifying records.
C1_Witness ==
    /\ Finished
    /\ \E k \in 1..Len(output.rows) :
          LET g == RowGroup(output.rows[k])
          IN  \E i, j \in 1..Len(g) :
                 /\ i < j
                 /\ Qualifies(g[i]) /\ Qualifies(g[j])
                 /\ <<g[i].doc_id, g[i].line_id, g[i].system>>
                       = <<g[j].doc_id, g[j].line_id, g[j].system>>

C3_EmptyTargetSkipped ==
    /\ log_counter["target segment is empty"] =
          Cardinality({i \in 1..(pos - 1) : input[i].tgt = ""})
    /\ \A l \in 1..Len(langs_to_data) :
          \A s \in 1..Len(langs_to_data[l].sigs) :
             \A d \in 1..Len(langs_to_data[l].sigs[s].data) :
                langs_to_data[l].sigs[s].data[d].tgt # ""
    /\ \A k \in 1..Len(data) : data[k].hypothesis_segment # ""
    /\ Finished =>
          log_counter["target segment is empty"] =
             Cardinality({i \in 1..Len(input) : input[i].tgt = ""})

\* A run that ended with rows, after reading a record with empty target.
C3_Witness ==
    /\ Finished
    /\ Len(data) >= 1
    /\ \E i \in 1..Len(input) : input[i].tgt = ""
    /\ log_counter["target segment is empty"] >= 1

\* C4: in either filter mode, every aligned (start, end) token pair of a
\* row is both "missing", or the -1/-1 pair of a no-error row, or a pair of
\* integers with 0 <= start <= end <= length of the hypothesis.
C4_RowsHoldNormalizedSpans ==
    \A k \in 1..Len(data) :
       LET st == Split(data[k].start_indices, IndexTokens)
           en == Split(data[k].end_indices, IndexTokens)
       IN  /\ Len(st) = Len(en)
           /\ \A i \in 1..Len(st) :
                 \/ st[i] = "missing" /\ en[i] = "missing"
                 \/ /\ data[k].error_types = "no-error"
                    /\ st[i] = "-1" /\ en[i] = "-1"
                 \/ /\ IsIntToken(st[i]) /\ IsIntToken(en[i])
                    /\ 0 <= ParseInt(st[i])
                    /\ ParseInt(st[i]) <= ParseInt(en[i])
                    /\ ParseInt(en[i]) <= Len(data[k].hypothesis_segment)

\* C5: a call of correct_span returns a span, whatever the bounds of its
\* argument (integers, strings, or one of each), and leaves the caller's
\* span as it was passed.
C5_CorrectSpanNeverFails ==
    span_result.called =>
       /\ ~span_result.raised
       /\ span_arg = span_result.passed

HasStringStart(d) ==
    \E i \in 1..Len(d.esa_spans) :
       ~d.esa_spans[i].start_i.int /\ d.esa_spans[i].start_i.s # "missing"

\* A record whose spans depart from the asserted types only by a start_i
\* that is a string other than "missing".
OnlyStringStartOdd(d) ==
    /\ HasStringStart(d)
    /\ \A i \in 1..Len(d.esa_spans) :
          /\ d.esa_spans[i].end_i.int
          /\ d.esa_spans[i].severity \in {"major", "minor", "undecided"}

\* C6 as claimed: with filtering disabled the run never stops at a joinable
\* record with a span whose start_i is a string other than "missing".
C6_StringStartNeverRejected ==
    ~(/\ ~filter_data_with_invalid_span
      /\ FailedAtDatum
      /\ Joinable(CurrentDatum)
      /\ OnlyStringStartOdd(CurrentDatum))

\* C6 as amended: with filtering disabled, whenever the spans of a joinable
\* record with a span whose start_i is a string other than "missing" are
\* examined, the run stops there: no row is added and no table is written.
C6_StringStartStopsRun ==
    [][(/\ ~filter_data_with_invalid_span
        /\ pc = "signature"
        /\ si <= Len(langs_to_data[li].sigs)
        /\ Joinable(CurrentDatum)
        /\ HasStringStart(CurrentDatum))
          => (/\ pc' = "failed"
              /\ data' = data
              /\ ~output'.written)]_vars

\* A run with filtering disabled that stopped at such a record.
C6_Witness ==
    /\ ~filter_data_with_invalid_span
    /\ FailedAtDatum
    /\ Joinable(CurrentDatum)
    /\ OnlyStringStartOdd(CurrentDatum)
    /\ ~output.written

\* A joinable record all of whose spans have ordered in-range bounds and a
\* severity among major, minor, critical, one of them critical.
QualifyingWithCritical(d) ==
    /\ Joinable(d)
    /\ ~HasInvalidSpan(d)
    /\ \E i \in 1..Len(d.esa_spans) : d.esa_spans[i].severity = "critical"

\* C7: in either filter mode the run never stops at a qualifying record that
\* carries a critical span, the row of such a record shows the span as
\* "major", and no row has the error type "critical".
C7_CriticalEmittedAsMajor ==
    /\ ~(FailedAtDatum /\ QualifyingWithCritical(CurrentDatum))
    /\ \A k \in 1..Len(data) :
          LET types == Split(data[k].error_types, TypeTokens)
              g == RowGroup(data[k])
              d == g[FirstQualifying(g)]
          IN  /\ \A i \in 1..Len(types) : types[i] # "critical"
              /\ \A i \in 1..Len(d.esa_spans) :
                    d.esa_spans[i].severity = "critical"
                       => types[i] = "major"

\* The record a row was built from (C2).
EmittedRecord(row) == RowGroup(row)[FirstQualifying(RowGroup(row))]

\* The bucket a span is counted in: zero-length spans are "missing".
BucketOf(sp) == IF sp.start_i = sp.end_i THEN "missing" ELSE sp.severity

CountSpans(d, bucket) ==
    Cardinality({i \in 1..Len(d.esa_spans) : BucketOf(d.esa_spans[i]) = bucket})

\* The spans of a bucket over the records of the first k rows of a pair.
RECURSIVE SumOverRows(_, _, _)
SumOverRows(k, L, bucket) ==
    IF k = 0 THEN 0
    ELSE SumOverRows(k - 1, L, bucket)
         + IF RowLangs(data[k]) = L
           THEN CountSpans(EmittedRecord(data[k]), bucket)
           ELSE 0

\* C8: at every time of the run the statistics of a language pair are the
\* counts over the records its rows were built from: rows of records
\* without spans, zero-length spans, and non-zero-length spans by severity.
C8_StatisticsCountEmitted ==
    \A L \in LangsSeen :
       /\ \A k \in RowsOfLangs(L) : FirstQualifying(RowGroup(data[k])) # 0
       /\ StatOf(L)["no-error"] =
             Cardinality({k \in RowsOfLangs(L) :
                             Len(EmittedRecord(data[k]).esa_spans) = 0})
       /\ StatOf(L)["missing"] = SumOverRows(Len(data), L, "missing")
       /\ StatOf(L)["major"] = SumOverRows(Len(data), L, "major")
       /\ StatOf(L)["minor"] = SumOverRows(Len(data), L, "minor")

\* A run that ended with a row of a zero-length minor span, counted as
\* missing and not as minor, and with a record with spans passed over.
C8_Witness ==
    /\ Finished
    /\ \E L \in LangsSeen :
          /\ StatOf(L)["missing"] >= 1
          /\ StatOf(L)["minor"] = 0
          /\ \E k \in RowsOfLangs(L) :
                \E i \in 1..Len(EmittedRecord(data[k]).esa_spans) :
                   LET sp == EmittedRecord(data[k]).esa_spans[i]
                   IN  sp.start_i = sp.end_i /\ sp.severity = "minor"
    /\ \E i \in 1..Len(Grouped) :
          /\ Len(Grouped[i].esa_spans) >= 1
          /\ \A k \in 1..Len(data) : ~RowBuiltFrom(data[k], Grouped[i])

\* The joinable records with an invalid span that precede the first
\* qualifying record of their signature, over the supported pairs.
RejectedForInvalidSpan ==
    {<<L, K, j>> \in
        (LangsSeen \cap SupportedLangs)
         \X AllKeys \X (1..Len(input)) :
        /\ K \in KeysOf(L)
        /\ j <= Len(GroupOf(L, K))
        /\ Joinable(GroupOf(L, K)[j])
        /\ HasInvalidSpan(GroupOf(L, K)[j])
        /\ \A i \in 1..j : ~Qualifies(GroupOf(L, K)[i])}

\* C9: with filtering enabled every row is built from a record without an
\* invalid span and shows no "undecided", and after the run the invalid-span
\* counter is the number of joinable records rejected for an invalid span;
\* with filtering disabled the counter stays 0.
C9_FilterRejectsInvalidSpans ==
    /\ filter_data_with_invalid_span =>
          \A k \in 1..Len(data) :
             /\ FirstQualifying(RowGroup(data[k])) # 0
             /\ RowBuiltFrom(data[k], EmittedRecord(data[k]))
             /\ ~HasInvalidSpan(EmittedRecord(data[k]))
             /\ LET types == Split(data[k].error_types, TypeTokens)
                IN  \A i \in 1..Len(types) : types[i] # "undecided"
    /\ (filter_data_with_invalid_span /\ Finished) =>
          log_counter["skip_datum_with_invalid_span"] =
             Cardinality(RejectedForInvalidSpan)
    /\ ~filter_data_with_invalid_span =>
          log_counter["skip_datum_with_invalid_span"] = 0

\* A filtering run that ended with a row and a rejected record.
C9_Witness ==
    /\ filter_data_with_invalid_span
    /\ Finished
    /\ Len(data) >= 1
    /\ log_counter["skip_datum_with_invalid_span"] >= 1

RECURSIVE SkippedOver(_)
SkippedOver(S) ==
    IF S = {} THEN 0
    ELSE LET L == CHOOSE x \in S : TRUE
         IN  (Cardinality(KeysOf(L)) - Cardinality(RowsOfLangs(L)))
             + SkippedOver(S \ {L})

====
